---- MODULE Spec2Model ----
(***************************************************************************)
(* A model of .ycm_extra_conf.py: the Settings resolver (compiler flags    *)
(* for a file, with header-to-source substitution and an optional          *)
(* compilation database) and the PythonSysPath augmenter (vendored         *)
(* third_party folders inserted into an interpreter's sys.path).           *)
(*                                                                         *)
(* File names handed to Settings are sequences of one-character strings,   *)
(* so that os.path.splitext is computed as Python computes it.  Directory  *)
(* paths of the sys.path part are sequences of path components, so that    *)
(* os.path.join is concatenation.                                          *)
(***************************************************************************)
EXTENDS Integers, Sequences, FiniteSets, TLC

VARIABLES
    database,     \* module global: None, or the opened compilation database
    flags,        \* module global: the static flag list
    files,        \* the file system: the paths for which os.path.exists holds
    called,       \* "none", or the function the host called last
    kwargs,       \* the keyword arguments of that call
    result,       \* what Settings returned
    sys_path,     \* the list object handed to PythonSysPath, mutated in place
    listing,      \* what os.listdir(DIR_OF_THIRD_PARTY) returned
    i,            \* position of the for loop in listing (1-based)
    pc,           \* "idle", "loop", "returned" or "raised"
    error,        \* the exception that left PythonSysPath, "" when none
    links         \* symbolic links of the file system: path -> target

vars == <<database, flags, files, called, kwargs, result,
          sys_path, listing, i, pc, error, links>>

sysPathVars == <<sys_path, listing, i, pc, error, links>>

\* ------------------------------------------------------------- bounds

\* Longest flag sequence the compilation database holds for one file.
MaxFlags == 2
\* Longest sys_path the host hands over.
MaxSysPath == 2
\* Most folders in third_party.
MaxFolders == 3

\* ------------------------------------------------------------ helpers

Range(s) == {s[k] : k \in 1..Len(s)}

Min(S) == CHOOSE x \in S : \A y \in S : x <= y

Max(S) == CHOOSE x \in S : \A y \in S : x >= y

\* Sequences over S of length lo..hi.
SeqsOf(S, lo, hi) == UNION {[1..n -> S] : n \in lo..hi}

\* The value of `database` when no compilation database was opened.
None == [opened |-> FALSE, info |-> [f \in {} |-> <<>>]]

EmptyMapping == [k \in {} |-> <<>>]

\* ------------------------------------------------- module constants

DIR_OF_THIS_SCRIPT == <<"repo">>

DIR_OF_THIRD_PARTY == DIR_OF_THIS_SCRIPT \o <<"third_party">>

SOURCE_EXTENSIONS ==
    << <<".", "c", "p", "p">>, <<".", "c", "x", "x">>, <<".", "c", "c">>,
       <<".", "c">>, <<".", "m">>, <<".", "m", "m">> >>

HEADER_EXTENSIONS ==
    << <<".", "h">>, <<".", "h", "x", "x">>, <<".", "h", "p", "p">>,
       <<".", "h", "h">> >>

StaticFlags ==
    << "-x", "c", "-W", "-Wall", "-Werror",
       "-Wno-unused-function",
       "-Wno-error=unused-function",
       "-Wno-error=unused-parameter",
       "-Wno-address-of-packed-member",
       "-Wno-array-bounds",
       "-Wno-unused-parameter",
       "-I./include",
       "-I./arch/arm/include" >>

ExcludedFlag == "-stdlib=libc++"

\* ------------------------------------------------ Settings: functions

\* str.rfind, 1-based, 0 when c does not occur.
RFind(s, c) ==
    LET I == {k \in 1..Len(s) : s[k] = c}
    IN  IF I = {} THEN 0 ELSE Max(I)

\* os.path.splitext: the extension starts at the last dot of the last path
\* component, unless only dots precede it there.
splitext(p) ==
    LET sepIndex == RFind(p, "/")
        dotIndex == RFind(p, ".")
    IN  IF /\ dotIndex > sepIndex
           /\ \E k \in (sepIndex + 1)..(dotIndex - 1) : p[k] # "."
        THEN <<SubSeq(p, 1, dotIndex - 1), SubSeq(p, dotIndex, Len(p))>>
        ELSE <<p, <<>>>>

IsHeaderFile(filename) ==
    LET extension == splitext(filename)[2]
    IN  extension \in Range(HEADER_EXTENSIONS)

\* os.path.exists
Exists(path) == path \in files

\* A slip: the header test dropped, every file name is paired.
FindCorrespondingSourceFileAnyFile(filename) ==
    LET basename == splitext(filename)[1]
        hits == {k \in 1..Len(SOURCE_EXTENSIONS) :
                     Exists(basename \o SOURCE_EXTENSIONS[k])}
    IN  IF hits = {} THEN filename
        ELSE basename \o SOURCE_EXTENSIONS[Min(hits)]

\* A slip: the loop keeps going and the last existing sibling wins.
FindCorrespondingSourceFileLast(filename) ==
    IF IsHeaderFile(filename)
    THEN LET basename == splitext(filename)[1]
             hits == {k \in 1..Len(SOURCE_EXTENSIONS) :
                          Exists(basename \o SOURCE_EXTENSIONS[k])}
         IN  IF hits = {} THEN filename
             ELSE basename \o SOURCE_EXTENSIONS[Max(hits)]
    ELSE filename

FindCorrespondingSourceFile(filename) ==
    IF IsHeaderFile(filename)
    THEN LET basename == splitext(filename)[1]
             hits == {k \in 1..Len(SOURCE_EXTENSIONS) :
                          Exists(basename \o SOURCE_EXTENSIONS[k])}
         IN  IF hits = {} THEN filename
             ELSE basename \o SOURCE_EXTENSIONS[Min(hits)]
    ELSE filename

\* list.remove(x) inside try/except ValueError: the first occurrence goes,
\* an absent x leaves the list as it was.
ListRemove(l, x) ==
    LET I == {k \in 1..Len(l) : l[k] = x}
    IN  IF I = {} THEN l
        ELSE SubSeq(l, 1, Min(I) - 1) \o SubSeq(l, Min(I) + 1, Len(l))

\* database.GetCompilationInfoForFile(filename)
GetCompilationInfoForFile(filename) ==
    IF filename \in DOMAIN database.info
    THEN database.info[filename]
    ELSE [compiler_flags_ |-> <<>>, compiler_working_dir_ |-> <<>>]

\* The branch of Settings taken when no database is open.
SettingsNoDatabase(filename) ==
    [flags |-> flags,
     include_paths_relative_to_dir |-> DIR_OF_THIS_SCRIPT,
     override_filename |-> filename]

\* A slip: the test for missing flags dropped.
SettingsFromDatabaseNoEmptyCheck(filename) ==
    LET compilation_info == GetCompilationInfoForFile(filename)
    IN  [flags |-> ListRemove(compilation_info.compiler_flags_, ExcludedFlag),
         include_paths_relative_to_dir |->
             compilation_info.compiler_working_dir_,
         override_filename |-> filename]

\* The branch of Settings taken when a database is open.
SettingsFromDatabase(filename) ==
    LET compilation_info == GetCompilationInfoForFile(filename)
    IN  IF compilation_info.compiler_flags_ = <<>>
        THEN EmptyMapping
        ELSE [flags |-> ListRemove(compilation_info.compiler_flags_,
                                   ExcludedFlag),
              include_paths_relative_to_dir |->
                  compilation_info.compiler_working_dir_,
              override_filename |-> filename]

\* A slip: the database is asked about the requested file name.
SettingsCfamilyRequested(kw) ==
    LET filename == FindCorrespondingSourceFile(kw.filename)
    IN  IF ~database.opened
        THEN SettingsNoDatabase(kw.filename)
        ELSE LET m == SettingsFromDatabase(kw.filename)
             IN  IF DOMAIN m = {} THEN m
                 ELSE [m EXCEPT !.override_filename = filename]

SettingsCfamily(kw) ==
    LET filename == FindCorrespondingSourceFile(kw.filename)
    IN  IF ~database.opened
        THEN SettingsNoDatabase(filename)
        ELSE SettingsFromDatabase(filename)

\* A slip: the language test dropped.
SettingsReturnAnyLanguage(kw) == SettingsCfamily(kw)

\* What Settings(**kwargs) returns.
SettingsReturn(kw) ==
    IF kw.language = "cfamily"
    THEN SettingsCfamily(kw)
    ELSE EmptyMapping

\* ---------------------------------------------------- Settings: inputs

Languages == {"cfamily", "python"}

\* File names the host asks about.
Filenames ==
    { <<"a", ".", "h">>,
      <<"a", ".", "h", "p", "p">>,
      <<"b", ".", "h", "h">>,
      <<"a", ".", "b", ".", "h", "x", "x">>,
      <<".", "h">>,
      <<"d", ".", "h", "/", "a">>,
      <<"a", ".", "c">> }

\* Files that may exist beside them.
SiblingFiles ==
    { <<"a", ".", "c", "p", "p">>,
      <<"a", ".", "c">>,
      <<"a", ".", "m", "m">>,
      <<"b", ".", "m">>,
      <<"a", ".", "b", ".", "c", "x", "x">>,
      <<".", "c">> }

\* Files a compilation database may index.
DatabaseFiles ==
    { <<"a", ".", "h">>, <<"a", ".", "c", "p", "p">>, <<"a", ".", "c">> }

FlagTokens == {ExcludedFlag, "-O2"}

\* The databases: every indexed file carries the same non-empty flags.
Databases ==
    { [opened |-> TRUE,
       info |-> [f \in indexed |->
                    [compiler_flags_ |-> fl,
                     compiler_working_dir_ |-> <<"build">>]]] :
      indexed \in (SUBSET DatabaseFiles) \ {{}},
      fl \in SeqsOf(FlagTokens, 1, MaxFlags) }

\* ------------------------------------------- PythonSysPath: functions

\* os.path.join of a directory and a relative path.
Join(dir, rel) == dir \o rel

\* os.path.realpath: a symbolic link on the way is replaced by its target.
Realpath(path) ==
    LET P == {n \in 1..Len(path) : SubSeq(path, 1, n) \in DOMAIN links}
    IN  IF P = {} THEN path
        ELSE links[SubSeq(path, 1, Min(P))]
                 \o SubSeq(path, Min(P) + 1, Len(path))

\* os.path.isfile
IsFile(path) == path \in files

\* list.index(x), 0-based; called only with an x that occurs.
ListIndex(l, x) == Min({k \in 1..Len(l) : l[k] = x}) - 1

\* list.insert(index, x) for index >= 0: x lands before the element at
\* index, or at the end when the list is shorter.
ListInsert(l, index, x) ==
    LET at == IF index > Len(l) THEN Len(l) ELSE index
    IN  SubSeq(l, 1, at) \o <<x>> \o SubSeq(l, at + 1, Len(l))

\* A slip: the raise indented into the loop, so only the first entry is
\* looked at.
HasStandardLibraryFirstOnly(sp) ==
    Len(sp) >= 1 /\ IsFile(Join(sp[1], <<"os.py">>))

\* Whether GetStandardLibraryIndexInSysPath returns (rather than raises).
HasStandardLibrary(sp) ==
    \E k \in 1..Len(sp) : IsFile(Join(sp[k], <<"os.py">>))

\* The 0-based index GetStandardLibraryIndexInSysPath returns.
GetStandardLibraryIndexInSysPath(sp) ==
    LET path == sp[Min({k \in 1..Len(sp) :
                            IsFile(Join(sp[k], <<"os.py">>))})]
    IN  ListIndex(sp, path)

\* The interpreters the host may name, and what
\* `<interpreter> -c 'import sys; print(sys.version_info[0])'` prints;
\* "fail" when the subprocess cannot be run or exits non-zero.
CheckOutput(interpreter_path) ==
    CASE interpreter_path = "python2" -> "2\n"
      [] interpreter_path = "python3" -> "3\n"
      [] OTHER -> "fail"

\* 'regex_{}'.format(output.rstrip().decode('utf8'))
RegexFolder(output) ==
    CASE output = "2\n" -> "regex_2"
      [] output = "3\n" -> "regex_3"

PythonFuturePath ==
    Realpath(Join(DIR_OF_THIRD_PARTY, Join(<<"python-future">>, <<"src">>)))

\* A slip: no `continue`, the folder falls through to the insert at 0.
InsertPythonFutureNoContinue(sp) ==
    ListInsert(ListInsert(sp, GetStandardLibraryIndexInSysPath(sp) + 1,
                          PythonFuturePath),
               0, Realpath(Join(DIR_OF_THIRD_PARTY,
                                Join(<<"python-future">>, <<"src">>))))

\* The list after the 'python-future' branch of the loop body.
InsertPythonFuture(sp) ==
    ListInsert(sp, GetStandardLibraryIndexInSysPath(sp) + 1, PythonFuturePath)

\* A slip: appended, lowest precedence.
InsertFolderAtEnd(sp, folder) ==
    ListInsert(sp, Len(sp), Realpath(Join(DIR_OF_THIRD_PARTY, folder)))

\* The list after the insert that ends the loop body; folder is a relative
\* path.
InsertFolder(sp, folder) ==
    ListInsert(sp, 0, Realpath(Join(DIR_OF_THIRD_PARTY, folder)))

\* ----------------------------------------------- PythonSysPath: inputs

FolderNames == {"python-future", "cregex", "requests", "waitress"}

Interpreters == {"python2", "python3", "missing"}

StdLib3 == <<"usr", "lib", "python3">>

StdLib2 == <<"usr", "lib", "python2">>

SitePackages == <<"usr", "lib", "site-packages">>

\* Directories the host may have on sys.path.
CallerPaths == {StdLib3, StdLib2, SitePackages}

\* Directories that may hold an os.py: the two standard libraries, and a
\* vendored package that ships a module of that name.
OsPyFiles ==
    { Join(StdLib3, <<"os.py">>),
      Join(StdLib2, <<"os.py">>),
      Join(DIR_OF_THIRD_PARTY, <<"requests", "os.py">>) }

\* The file system's symbolic links: none, or third_party/waitress pointing
\* to a directory outside the repository.
LinkChoices ==
    { [p \in {} |-> <<>>],
      [p \in {Join(DIR_OF_THIRD_PARTY, <<"waitress">>)} |->
          <<"opt", "waitress">>] }

\* os.listdir: the folders in any order, each once.
Listings ==
    {l \in SeqsOf(FolderNames, 0, MaxFolders) :
        \A a, b \in 1..Len(l) : a # b => l[a] # l[b]}

\* ------------------------------------------------------------ actions

\* The host calls Settings(language=..., filename=...).
Settings(language, filename) ==
    /\ called' = "Settings"
    /\ kwargs' = [language |-> language, filename |-> filename]
    /\ result' = SettingsReturn(kwargs')
    /\ UNCHANGED <<database, flags, files>>
    /\ UNCHANGED sysPathVars

\* The host calls PythonSysPath(sys_path=..., interpreter_path=...) on some
\* file system: the list is bound and the directory listed.  The function keeps nothing
\* between calls, so one call from the loaded module stands for every call.
PythonSysPath ==
    /\ pc = "idle"
    /\ \E sp \in SeqsOf(CallerPaths, 0, MaxSysPath),
          interpreter_path \in Interpreters,
          ls \in Listings,
          fs \in SUBSET OsPyFiles,
          lk \in LinkChoices :
            /\ called' = "PythonSysPath"
            /\ kwargs' = [sys_path |-> sp,
                          interpreter_path |-> interpreter_path]
            /\ sys_path' = sp
            /\ listing' = ls
            /\ files' = fs
            /\ links' = lk
    /\ i' = 1
    /\ pc' = "loop"
    /\ error' = ""
    /\ UNCHANGED <<database, flags, result>>

\* Loop body, folder == 'python-future', the standard library found.
LoopPythonFuture ==
    /\ pc = "loop"
    /\ i <= Len(listing)
    /\ listing[i] = "python-future"
    /\ HasStandardLibrary(sys_path)
    /\ sys_path' = InsertPythonFuture(sys_path)
    /\ i' = i + 1
    /\ UNCHANGED <<database, flags, files, called, kwargs, result,
                   listing, pc, error, links>>

\* Loop body, folder == 'python-future', GetStandardLibraryIndexInSysPath
\* raises.
LoopPythonFutureRaise ==
    /\ pc = "loop"
    /\ i <= Len(listing)
    /\ listing[i] = "python-future"
    /\ ~HasStandardLibrary(sys_path)
    /\ pc' = "raised"
    /\ error' = "RuntimeError"
    /\ UNCHANGED <<database, flags, files, called, kwargs, result,
                   sys_path, listing, i, links>>

\* Loop body, folder == 'cregex', the interpreter answered.
LoopCregex ==
    /\ pc = "loop"
    /\ i <= Len(listing)
    /\ listing[i] = "cregex"
    /\ CheckOutput(kwargs.interpreter_path) # "fail"
    /\ sys_path' = InsertFolder(sys_path,
                       Join(<<"cregex">>,
                            <<RegexFolder(CheckOutput(kwargs.interpreter_path))>>))
    /\ i' = i + 1
    /\ UNCHANGED <<database, flags, files, called, kwargs, result,
                   listing, pc, error, links>>

\* Loop body, folder == 'cregex', subprocess.check_output raises.
LoopCregexRaise ==
    /\ pc = "loop"
    /\ i <= Len(listing)
    /\ listing[i] = "cregex"
    /\ CheckOutput(kwargs.interpreter_path) = "fail"
    /\ pc' = "raised"
    /\ error' = "SubprocessError"
    /\ UNCHANGED <<database, flags, files, called, kwargs, result,
                   sys_path, listing, i, links>>

\* Loop body, any other folder.
LoopOther ==
    /\ pc = "loop"
    /\ i <= Len(listing)
    /\ listing[i] \notin {"python-future", "cregex"}
    /\ sys_path' = InsertFolder(sys_path, <<listing[i]>>)
    /\ i' = i + 1
    /\ UNCHANGED <<database, flags, files, called, kwargs, result,
                   listing, pc, error, links>>

\* The listing is exhausted: return sys_path.
Return ==
    /\ pc = "loop"
    /\ i > Len(listing)
    /\ pc' = "returned"
    /\ UNCHANGED <<database, flags, files, called, kwargs, result,
                   sys_path, listing, i, error, links>>

\* -------------------------------------------------------- specifications

\* After the module is loaded, before any call.
InitCalls ==
    /\ flags = StaticFlags
    /\ called = "none"
    /\ kwargs = EmptyMapping
    /\ result = EmptyMapping
    /\ sys_path = <<>>
    /\ listing = <<>>
    /\ i = 0
    /\ pc = "idle"
    /\ error = ""
    /\ links = [p \in {} |-> <<>>]

\* The Settings resolver, for every setting of compilation_database_folder
\* (the file ships with '', for which no database is opened) and every set
\* of sibling files.
InitSettings ==
    /\ InitCalls
    /\ database \in {None} \cup Databases
    /\ files \in SUBSET SiblingFiles

NextSettings ==
    \E language \in Languages, filename \in Filenames :
        Settings(language, filename)

SpecSettings == InitSettings /\ [][NextSettings]_vars

\* The path augmenter, with the module as it ships.
InitSysPath ==
    /\ InitCalls
    /\ database = None
    /\ files = {}

NextSysPath ==
    \/ PythonSysPath
    \/ LoopPythonFuture
    \/ LoopPythonFutureRaise
    \/ LoopCregex
    \/ LoopCregexRaise
    \/ LoopOther
    \/ Return

SpecSysPath == InitSysPath /\ [][NextSysPath]_vars

\* ------------------------------------------------- claims: Settings

AHeader == <<"a", ".", "h">>

ACpp == <<"a", ".", "c", "p", "p">>

AC == <<"a", ".", "c">>

AMm == <<"a", ".", "m", "m">>

BHeader == <<"b", ".", "h", "h">>

\* Settings was called for the native-code language.
CfamilyCall == called = "Settings" /\ kwargs.language = "cfamily"

\* The requested file name carries one of the four header extensions.
RequestedIsHeader ==
    splitext(kwargs.filename)[2] \in
        { <<".", "h">>, <<".", "h", "x", "x">>, <<".", "h", "p", "p">>,
          <<".", "h", "h">> }

\* The positions in (.cpp, .cxx, .cc, .c, .m, .mm) of the existing files
\* that share the requested file's base name.
RequestedSiblings ==
    {k \in 1..6 :
        (splitext(kwargs.filename)[1] \o SOURCE_EXTENSIONS[k]) \in files}

\* The flags the database holds for a file name.
DatabaseFlags(filename) ==
    IF filename \in DOMAIN database.info
    THEN database.info[filename].compiler_flags_
    ELSE <<>>

\* C2 (as claimed): with a database that holds flags for the resolved file
\* name, the returned flags never contain -stdlib=libc++, however often the
\* database lists it, and equal the database's flags when it is absent.
C2_NoExcludedFlag ==
    (/\ CfamilyCall
     /\ database.opened
     /\ DatabaseFlags(FindCorrespondingSourceFile(kwargs.filename)) # <<>>)
    => /\ DOMAIN result # {}
       /\ "-stdlib=libc++" \notin Range(result.flags)
       /\ ("-stdlib=libc++" \notin
               Range(DatabaseFlags(
                         FindCorrespondingSourceFile(kwargs.filename)))
           => result.flags =
                  DatabaseFlags(FindCorrespondingSourceFile(kwargs.filename)))

\* C4: for a header with an existing sibling source file, every non-empty
\* mapping names as override_filename the first existing sibling in
\* extension order, an existing file that is not the requested header.
C4_HeaderMapsToFirstSibling ==
    (/\ CfamilyCall
     /\ RequestedIsHeader
     /\ RequestedSiblings # {}
     /\ DOMAIN result # {})
    => /\ \E k \in RequestedSiblings :
            /\ \A j \in RequestedSiblings : k <= j
            /\ result.override_filename =
                   splitext(kwargs.filename)[1] \o SOURCE_EXTENSIONS[k]
       /\ result.override_filename \in files
       /\ result.override_filename # kwargs.filename

\* a.h requested, a.cpp missing, a.c and a.mm present: a.c is returned.
C4_Witness ==
    /\ CfamilyCall
    /\ kwargs.filename = AHeader
    /\ ACpp \notin files
    /\ AC \in files
    /\ AMm \in files
    /\ DOMAIN result # {}
    /\ result.override_filename = AC

\* C5: for a header without any sibling source file, and for every file
\* name that is not a header whatever files exist, every non-empty mapping
\* names the requested file name as override_filename.
C5_OtherwiseUnchanged ==
    (/\ CfamilyCall
     /\ DOMAIN result # {}
     /\ (~RequestedIsHeader \/ RequestedSiblings = {}))
    => result.override_filename = kwargs.filename

\* b.hh requested with no b.* source file, while other source files exist.
C5_Witness ==
    /\ CfamilyCall
    /\ kwargs.filename = BHeader
    /\ RequestedSiblings = {}
    /\ ACpp \in files
    /\ DOMAIN result # {}
    /\ result.override_filename = BHeader

\* C6: for every language other than cfamily the mapping is empty, whatever
\* the file name, the sibling files and the database.
C6_OtherLanguageEmpty ==
    (called = "Settings" /\ kwargs.language # "cfamily")
    => DOMAIN result = {}

\* A python request for a.h, with a database that holds flags for a.h and
\* for its existing sibling a.cpp.
C6_Witness ==
    /\ called = "Settings"
    /\ kwargs.language = "python"
    /\ kwargs.filename = AHeader
    /\ database.opened
    /\ ACpp \in files
    /\ DatabaseFlags(AHeader) # <<>>
    /\ DatabaseFlags(ACpp) # <<>>
    /\ DOMAIN result = {}

\* C7: without a database, a cfamily call returns the static flag list token
\* for token, the script's directory and the resolved file name, after any
\* number of earlier calls.
C7_StaticFallback ==
    (CfamilyCall /\ ~database.opened)
    => /\ DOMAIN result =
              {"flags", "include_paths_relative_to_dir", "override_filename"}
       /\ result.flags =
              << "-x", "c", "-W", "-Wall", "-Werror",
                 "-Wno-unused-function",
                 "-Wno-error=unused-function",
                 "-Wno-error=unused-parameter",
                 "-Wno-address-of-packed-member",
                 "-Wno-array-bounds",
                 "-Wno-unused-parameter",
                 "-I./include",
                 "-I./arch/arm/include" >>
       /\ result.include_paths_relative_to_dir = <<"repo">>
       /\ result.override_filename =
              (IF RequestedIsHeader /\ RequestedSiblings # {}
               THEN splitext(kwargs.filename)[1]
                        \o SOURCE_EXTENSIONS[Min(RequestedSiblings)]
               ELSE kwargs.filename)

\* No database, a.h requested with a.cpp present.
C7_Witness ==
    /\ CfamilyCall
    /\ ~database.opened
    /\ kwargs.filename = AHeader
    /\ ACpp \in files
    /\ result.override_filename = ACpp
    /\ Len(result.flags) = 13

\* C8: with a database that holds no flags for the resolved file name, a
\* cfamily call returns the empty mapping.
C8_NoFlagsEmpty ==
    (/\ CfamilyCall
     /\ database.opened
     /\ DatabaseFlags(IF RequestedIsHeader /\ RequestedSiblings # {}
                      THEN splitext(kwargs.filename)[1]
                               \o SOURCE_EXTENSIONS[Min(RequestedSiblings)]
                      ELSE kwargs.filename) = <<>>)
    => DOMAIN result = {}

\* a.h requested, the database holds flags for a.h but none for a.cpp, the
\* sibling it resolves to.
C8_Witness ==
    /\ CfamilyCall
    /\ database.opened
    /\ kwargs.filename = AHeader
    /\ ACpp \in files
    /\ DatabaseFlags(AHeader) # <<>>
    /\ DatabaseFlags(ACpp) = <<>>
    /\ DOMAIN result = {}

\* -------------------------------------------- claims: PythonSysPath

\* The entry the loop inserts for a folder other than 'python-future'.
VendoredEntry(folder) ==
    LET dir == IF folder = "cregex"
               THEN <<"repo", "third_party", "cregex",
                      IF kwargs.interpreter_path = "python2"
                      THEN "regex_2" ELSE "regex_3">>
               ELSE <<"repo", "third_party", folder>>
    IN  Realpath(dir)

\* The vendored entries of the first n listed folders other than
\* 'python-future', last listed first.
RECURSIVE FrontEntries(_)
FrontEntries(n) ==
    IF n = 0 THEN <<>>
    ELSE IF listing[n] = "python-future" THEN FrontEntries(n - 1)
    ELSE <<VendoredEntry(listing[n])>> \o FrontEntries(n - 1)

RemoveAt(l, p) == SubSeq(l, 1, p - 1) \o SubSeq(l, p + 1, Len(l))

Count(l, x) == Cardinality({k \in 1..Len(l) : l[k] = x})

\* No entry of the list holds the marker file os.py.
NoMarker(l) == \A k \in 1..Len(l) : (l[k] \o <<"os.py">>) \notin files

\* C1 (as claimed): when no entry of the provided list holds os.py and
\* 'python-future' is listed, the call ends in the RuntimeError with the
\* list holding exactly its original entries.  (A call ended by the
\* interpreter subprocess failing is left aside.)
C1_RaisesUntouched ==
    (/\ pc \in {"returned", "raised"}
     /\ error # "SubprocessError"
     /\ "python-future" \in Range(listing)
     /\ NoMarker(kwargs.sys_path))
    => /\ pc = "raised"
       /\ error = "RuntimeError"
       /\ sys_path = kwargs.sys_path

\* C1 (amended): if os.py is in no entry of the list as it stands when the
\* loop reaches 'python-future' (the provided entries and the vendored
\* entries of the folders listed before it), the call raises there; at the
\* raise the list is those vendored entries, last listed first, followed by
\* the original entries, and no python-future entry was inserted.
C1_RaisesBeforePythonFuture ==
    /\ \A j \in 1..Len(listing) :
          (/\ listing[j] = "python-future"
           /\ NoMarker(FrontEntries(j - 1) \o kwargs.sys_path))
          => (i <= j /\ pc # "returned")
    /\ (pc = "raised" /\ error = "RuntimeError")
       => /\ listing[i] = "python-future"
          /\ NoMarker(sys_path)
          /\ sys_path = FrontEntries(i - 1) \o kwargs.sys_path
          /\ (i = 1 => sys_path = kwargs.sys_path)

\* The raise comes after one vendored folder was already inserted.
C1_Witness ==
    /\ pc = "raised"
    /\ error = "RuntimeError"
    /\ i = 2
    /\ Len(kwargs.sys_path) = 2
    /\ NoMarker(kwargs.sys_path)
    /\ Len(sys_path) = 3

\* C3: when the call returns, every entry it was given is still in the list
\* and the list is longer by the number of listed folders.
C3_NothingRemoved ==
    pc = "returned"
    => /\ Len(sys_path) = Len(kwargs.sys_path) + Len(listing)
       /\ \A k \in 1..Len(kwargs.sys_path) :
             Count(sys_path, kwargs.sys_path[k])
                 >= Count(kwargs.sys_path, kwargs.sys_path[k])

\* A returned call that went through both special cases.
C3_Witness ==
    /\ pc = "returned"
    /\ "python-future" \in Range(listing)
    /\ "cregex" \in Range(listing)
    /\ Len(listing) = 3
    /\ Len(kwargs.sys_path) = 2
    /\ Len(sys_path) = 5

\* C9 (as claimed): when 'python-future' is listed and the call returns,
\* python-future/src sits right after the first provided entry that holds
\* os.py.  After the call the provided entries follow the other vendored
\* entries, so that entry is at position Len(listing) - 1 + m.
C9_AfterStandardLibrary ==
    (/\ pc = "returned"
     /\ "python-future" \in Range(listing)
     /\ ~NoMarker(kwargs.sys_path))
    => LET m == Min({k \in 1..Len(kwargs.sys_path) :
                        (kwargs.sys_path[k] \o <<"os.py">>) \in files})
           n == Len(listing)
       IN  /\ sys_path[n - 1 + m] = kwargs.sys_path[m]
           /\ sys_path[n + m] =
                  Realpath(<<"repo", "third_party", "python-future", "src">>)

\* C10: every folder other than 'python-future' goes to the front when it
\* is processed: with the python-future entry taken out, the list is the
\* vendored entries of the folders processed so far, last listed first,
\* followed by the original entries in their order; so it is when the call
\* returns.
C10_FrontInReverseOrder ==
    pc \in {"loop", "returned"}
    => LET expected == FrontEntries(i - 1) \o kwargs.sys_path
       IN  IF \E j \in 1..(i - 1) : listing[j] = "python-future"
           THEN \E p \in 1..Len(sys_path) :
                   /\ sys_path[p] =
                          Realpath(<<"repo", "third_party",
                                     "python-future", "src">>)
                   /\ RemoveAt(sys_path, p) = expected
           ELSE sys_path = expected

\* A returned call with cregex, python-future and a linked folder, in that
\* order, on a list of two entries.
C10_Witness ==
    /\ pc = "returned"
    /\ listing = <<"cregex", "python-future", "waitress">>
    /\ kwargs.interpreter_path = "python2"
    /\ Len(kwargs.sys_path) = 2
    /\ sys_path[1] = <<"opt", "waitress">>
    /\ sys_path[2] = <<"repo", "third_party", "cregex", "regex_2">>

====
